---------------------------- MODULE Spec2Model ----------------------------
(***************************************************************************)
(* Model of ocl::clsurf::CutterLocationSurface (src/algo/clsurface.hpp):   *)
(* the bounding quad built by init(), the subdivide() loop over the faces  *)
(* and subdivide_face(), on top of the half-edge diagram `g`.              *)
(*                                                                         *)
(* Coordinates are fixed-point numbers in units of 1/4, so that the        *)
(* factors 0.5 and 0.25 of subdivide_face are exact for an integer `far`:  *)
(* the coordinate 1.0 is stored as 4, 0.25 as 1.                           *)
(*                                                                         *)
(* A Vertex descriptor is the position of the vertex in g.verts, an Edge   *)
(* descriptor is a fresh number, a Face is its 0-based index in g.faces.   *)
(***************************************************************************)
EXTENDS Integers, Sequences, FiniteSets, TLC

\* How many builders are constructed one after the other.
MaxBuilders == 2
\* The largest half-extent `far` tried (whole units); the smallest is -1.
MaxFar == 2
\* The largest min_sampling tried, in units of 1/4.
MaxSampling == 2

FarValues == -1 .. MaxFar
SamplingValues == 0 .. MaxSampling

VARIABLES
    count,          \* VertexProps::count, the static vertex counter
    g,              \* the half-edge diagram of the builder under construction
    far,            \* CutterLocationSurface::far (whole units)
    min_sampling,   \* CutterLocationSurface::min_sampling (units of 1/4)
    out_face,       \* CutterLocationSurface::out_face
    f,              \* the loop variable of subdivide()
    f_edges,        \* the local f_edges of subdivide_face()
    i,              \* position of BOOST_FOREACH in f_edges (1-based)
    center,         \* the local center of subdivide_face()
    pc,             \* where the constructor of the current builder stands
    built           \* the builders constructed earlier, oldest first

vars == <<count, g, far, min_sampling, out_face, f, f_edges, i, center, pc, built>>

-----------------------------------------------------------------------------
(* Points *)

\* Point(x,y,z) with x, y, z in whole units.
Point(x, y, z) == <<4 * x, 4 * y, 4 * z>>

\* Point(): the default-constructed point, the origin.
DefaultPoint == <<0, 0, 0>>

PAdd(p, q) == <<p[1] + q[1], p[2] + q[2], p[3] + q[3]>>

\* 0.5 * p and 0.25 * p
Half(p) == <<p[1] \div 2, p[2] \div 2, p[3] \div 2>>
Quarter(p) == <<p[1] \div 4, p[2] \div 4, p[3] \div 4>>

\* squared length of q - p, in units of 1/16
DistSq(p, q) ==
    (q[1] - p[1]) * (q[1] - p[1]) + (q[2] - p[2]) * (q[2] - p[2])
        + (q[3] - p[3]) * (q[3] - p[3])

-----------------------------------------------------------------------------
(* The half-edge diagram *)

NoEdge == 0 - 1

EmptyGraph == [verts |-> <<>>, edges |-> <<>>, faces |-> <<>>, alloc |-> 0]

\* VertexProps(): the position is default-constructed, the index is the
\* current value of the static counter.
VertexProps(cnt) == [position |-> DefaultPoint, index |-> cnt]

\* VertexProps::init() leaves the static counter one higher.
CountAfterInit(cnt) == cnt + 1

\* g.add_vertex(): one default-constructed VertexProps at the end of the
\* vertex list.  The result is the pair (graph, static counter).
add_vertex(w) ==
    [gr |-> [w.gr EXCEPT !.verts = Append(@, VertexProps(w.cnt))],
     cnt |-> CountAfterInit(w.cnt)]

\* the descriptor of the vertex added last
LastVertex(gr) == Len(gr.verts)

\* g[v].position = p
SetPosition(gr, v, p) == [gr EXCEPT !.verts[v].position = p]

\* g.add_face(): a face with no edge yet; its index is returned.
add_face(gr) ==
    [gr EXCEPT !.faces = Append(@, [idx |-> Len(@), edge |-> NoEdge])]

num_faces(gr) == Len(gr.faces)

\* g[f].edge, for a 0-based face index
FaceEdge(gr, face) == gr.faces[face + 1].edge

SetFaceEdge(gr, face, e) == [gr EXCEPT !.faces[face + 1].edge = e]

Edges(gr) == DOMAIN gr.edges

\* g.add_edge(s, t): a half-edge with default EdgeProps; its descriptor is
\* gr.alloc of the result.
add_edge(gr, s, t) ==
    LET id == gr.alloc + 1
        props == [source |-> s, target |-> t, next |-> NoEdge,
                  twin |-> NoEdge, face |-> NoEdge]
    IN [gr EXCEPT !.alloc = id,
                  !.edges = [x \in (DOMAIN @) \cup {id} |->
                                IF x = id THEN props ELSE @[x]]]

remove_edge(gr, e) ==
    [gr EXCEPT !.edges = [x \in (DOMAIN @) \ {e} |-> @[x]]]

\* g.twin_edges(e1, e2): sets both directions.
twin_edges(gr, e1, e2) ==
    [gr EXCEPT !.edges[e1].twin = e2, !.edges[e2].twin = e1]

SetNext(gr, e, n) == [gr EXCEPT !.edges[e].next = n]
SetFace(gr, e, face) == [gr EXCEPT !.edges[e].face = face]

\* The walk of g.face_edges(): push the current edge, step to its next,
\* until the start recurs.  The walk is cut after as many steps as there
\* are half-edges (a cycle that does not close never ends in the code).
RECURSIVE FaceWalk(_, _, _, _)
FaceWalk(gr, start, cur, acc) ==
    LET out == Append(acc, cur)
        nxt == gr.edges[cur].next
    IN IF nxt = start \/ nxt \notin Edges(gr)
            \/ Len(out) >= Cardinality(Edges(gr))
       THEN out
       ELSE FaceWalk(gr, start, nxt, out)

face_edges(gr, face) ==
    IF FaceEdge(gr, face) \in Edges(gr)
    THEN FaceWalk(gr, FaceEdge(gr, face), FaceEdge(gr, face), <<>>)
    ELSE <<>>

\* g.previous_edge(e): the half-edge whose next is e.
previous_edge(gr, e) ==
    IF \E p \in Edges(gr) : gr.edges[p].next = e
    THEN CHOOSE p \in Edges(gr) : gr.edges[p].next = e
    ELSE e

\* g.insert_vertex_in_edge(v, e): e (source -> target) becomes e1
\* (source -> v) and e2 (v -> target), its twin becomes te1 (target -> v)
\* and te2 (v -> source); the new half-edges inherit the face of their
\* parent, the predecessors point at e1 and te1, the twins cross, the faces'
\* representative edges become e1 and te1, and e and its twin are removed.
insert_vertex_in_edge(gr, v, e) ==
    LET tw == gr.edges[e].twin
        src == gr.edges[e].source
        trg == gr.edges[e].target
        face == gr.edges[e].face
        twin_face == gr.edges[tw].face
        previous == previous_edge(gr, e)
        twin_previous == previous_edge(gr, tw)
        e1 == gr.alloc + 1
        e2 == gr.alloc + 2
        te1 == gr.alloc + 3
        te2 == gr.alloc + 4
        g1 == add_edge(add_edge(gr, src, v), v, trg)
        g2 == SetFace(SetFace(g1, e1, face), e2, face)
        g3 == SetNext(SetNext(SetNext(g2, previous, e1), e1, e2),
                      e2, g2.edges[e].next)
        g4 == add_edge(add_edge(g3, trg, v), v, src)
        g5 == SetFace(SetFace(g4, te1, twin_face), te2, twin_face)
        g6 == SetNext(SetNext(SetNext(g5, twin_previous, te1), te1, te2),
                      te2, g5.edges[tw].next)
        g7 == twin_edges(twin_edges(g6, e1, te2), e2, te1)
        g8 == SetFaceEdge(SetFaceEdge(g7, face, e1), twin_face, te1)
    IN remove_edge(remove_edge(g8, e), tw)

-----------------------------------------------------------------------------
(* CutterLocationSurface::init(), up to its call of subdivide() *)

\* The four add_vertex calls and the four position assignments.  The last
\* assignment writes g[c] again; g[d] keeps the default position.
InitVertices(w, fr) ==
    LET wa == add_vertex(w)
        a == LastVertex(wa.gr)
        wa1 == [wa EXCEPT !.gr = SetPosition(@, a, Point(fr, fr, 0))]
        wb == add_vertex(wa1)
        b == LastVertex(wb.gr)
        wb1 == [wb EXCEPT !.gr = SetPosition(@, b, Point(0 - fr, fr, 0))]
        wc == add_vertex(wb1)
        c == LastVertex(wc.gr)
        wc1 == [wc EXCEPT !.gr = SetPosition(@, c, Point(0 - fr, 0 - fr, 0))]
        wd == add_vertex(wc1)
    IN [wd EXCEPT !.gr = SetPosition(@, c, Point(fr, 0 - fr, 0))]

\* The descriptors init() holds: vertices a..d, faces, half-edges e1..e4t.
Va == 1
Vb == 2
Vc == 3
Vd == 4
F_outer == 0
F_inner == 1
E1 == 1
E1t == 2
E2 == 3
E2t == 4
E3 == 5
E3t == 6
E4 == 7
E4t == 8

\* Face f_outer = g.add_face(); Face f_inner = g.add_face();
InitFaces(gr) == add_face(add_face(gr))

\* the eight add_edge calls, in order: (source, target)
InitEdgeEnds ==
    << <<Va, Vb>>, <<Vb, Va>>, <<Vb, Vc>>, <<Vc, Vb>>,
       <<Vc, Vd>>, <<Vd, Vc>>, <<Vd, Va>>, <<Va, Vd>> >>

RECURSIVE AddEdges(_, _)
AddEdges(gr, ends) ==
    IF ends = <<>> THEN gr
    ELSE AddEdges(add_edge(gr, Head(ends)[1], Head(ends)[2]), Tail(ends))

InitEdges(gr) == AddEdges(gr, InitEdgeEnds)

\* g[f_inner].edge = e1; g[f_outer].edge = e1t;
InitFaceEdges(gr) == SetFaceEdge(SetFaceEdge(gr, F_inner, E1), F_outer, E1t)

\* A mis-wired variant of the twin pairs: e4 is twinned with e3t.
InitTwinPairsCrossed == << <<E1, E1t>>, <<E2, E2t>>, <<E3, E3t>>, <<E4, E3t>> >>

\* the four g.twin_edges calls
InitTwinPairs == << <<E1, E1t>>, <<E2, E2t>>, <<E3, E3t>>, <<E4, E4t>> >>

RECURSIVE ApplyTwins(_, _)
ApplyTwins(gr, pairs) ==
    IF pairs = <<>> THEN gr
    ELSE ApplyTwins(twin_edges(gr, Head(pairs)[1], Head(pairs)[2]), Tail(pairs))

\* g[e].face = ... for the inner and the outer half-edges
InitEdgeFace ==
    << <<E1, F_inner>>, <<E2, F_inner>>, <<E3, F_inner>>, <<E4, F_inner>>,
       <<E1t, F_outer>>, <<E2t, F_outer>>, <<E3t, F_outer>>, <<E4t, F_outer>> >>

RECURSIVE ApplyFaces(_, _)
ApplyFaces(gr, pairs) ==
    IF pairs = <<>> THEN gr
    ELSE ApplyFaces(SetFace(gr, Head(pairs)[1], Head(pairs)[2]), Tail(pairs))

\* A mis-wired variant of the next-pointers: e4 is followed by e2.
InitNextSkips ==
    << <<E1, E2>>, <<E2, E3>>, <<E3, E4>>, <<E4, E2>>,
       <<E1t, E4t>>, <<E4t, E3t>>, <<E3t, E2t>>, <<E2t, E1t>> >>

\* the next-pointers: inner cycle e1 e2 e3 e4, outer cycle e1t e4t e3t e2t
InitNext ==
    << <<E1, E2>>, <<E2, E3>>, <<E3, E4>>, <<E4, E1>>,
       <<E1t, E4t>>, <<E4t, E3t>>, <<E3t, E2t>>, <<E2t, E1t>> >>

RECURSIVE ApplyNext(_, _)
ApplyNext(gr, pairs) ==
    IF pairs = <<>> THEN gr
    ELSE ApplyNext(SetNext(gr, Head(pairs)[1], Head(pairs)[2]), Tail(pairs))

\* init() on a fresh diagram, up to the call of subdivide()
InitQuad(cnt, fr) ==
    LET w0 == InitVertices([gr |-> EmptyGraph, cnt |-> cnt], fr)
        g1 == InitFaceEdges(InitEdges(InitFaces(w0.gr)))
        g2 == ApplyTwins(g1, InitTwinPairs)
        g3 == ApplyFaces(g2, InitEdgeFace)
    IN [w0 EXCEPT !.gr = ApplyNext(g3, InitNext)]

-----------------------------------------------------------------------------
(* The state machine *)

Init ==
    /\ count = 0
    /\ g = EmptyGraph
    /\ far = 0
    /\ min_sampling = 0
    /\ out_face = 0
    /\ f = 0
    /\ f_edges = <<>>
    /\ i = 0
    /\ center = 0
    /\ pc = "start"
    /\ built = <<>>

\* The builder just finished, as it stays in memory.
Finished == [far |-> far, g |-> g, out_face |-> out_face]

\* CutterLocationSurface(double f): far = f, then init() up to the call of
\* subdivide().  min_sampling is not initialized: any value.  A builder
\* constructed earlier stays as it is.
Construct(fv, ms) ==
    /\ pc \in {"start", "done"}
    /\ Len(built) + (IF pc = "done" THEN 1 ELSE 0) < MaxBuilders
    /\ built' = IF pc = "done" THEN Append(built, Finished) ELSE built
    /\ far' = fv
    /\ min_sampling' = ms
    /\ LET w == InitQuad(count, fv)
       IN /\ g' = w.gr
          /\ count' = w.cnt
    /\ out_face' = F_outer
    /\ f' = 0
    /\ f_edges' = <<>>
    /\ i' = 0
    /\ center' = 0
    /\ pc' = "subdivide"

\* A guard that lets every face through, out_face included.
ShallSubdivideAll(face, outer) == TRUE

\* The guard of subdivide(): every face but out_face is subdivided.
ShallSubdivide(face, outer) == face # outer

\* One turn of the for loop of subdivide(): the loop ends (and with it
\* init() and the constructor), or face f is skipped, or subdivide_face(f)
\* is entered.
SubdivideLoop ==
    /\ pc = "subdivide"
    /\ IF f < num_faces(g)
       THEN IF ShallSubdivide(f, out_face)
            THEN pc' = "subdivide_face" /\ f' = f
            ELSE pc' = "subdivide" /\ f' = f + 1
       ELSE pc' = "done" /\ f' = f
    /\ UNCHANGED <<count, g, far, min_sampling, out_face, f_edges, i, center, built>>

\* Entry of subdivide_face(f): the boundary is read, assert(size == 4),
\* the center vertex is added.
SubdivideFaceEnter ==
    /\ pc = "subdivide_face"
    /\ f_edges' = face_edges(g, f)
    /\ IF Len(face_edges(g, f)) = 4
       THEN LET w == add_vertex([gr |-> g, cnt |-> count])
            IN /\ g' = w.gr
               /\ count' = w.cnt
               /\ center' = LastVertex(w.gr)
               /\ i' = 1
               /\ pc' = "foreach"
       ELSE /\ pc' = "assert_failed"
            /\ UNCHANGED <<g, count, center, i>>
    /\ UNCHANGED <<far, min_sampling, out_face, f, built>>

\* A wrong weight: 0.5 * g[src].position
CenterShareHalf(gr, src, trg) == Half(gr.verts[src].position)

\* What one edge adds to the position of the center: 0.25 * g[src].position

CenterShare(gr, src, trg) == Quarter(gr.verts[src].position)

\* A vertex for the edge and another one for its twin (a double split).
NewMidVertexPerHalfEdge(w) == add_vertex(add_vertex(w))

\* Vertex v = g.add_vertex(): one vertex per split edge.
NewMidVertex(w) == add_vertex(w)

\* The body of the first BOOST_FOREACH for edge e: the center accumulates,
\* a vertex is added at the mid-point and inserted in e.
SplitEdge(w, e, ctr) ==
    LET src == w.gr.edges[e].source
        trg == w.gr.edges[e].target
        mid == Half(PAdd(w.gr.verts[src].position, w.gr.verts[trg].position))
        g1 == SetPosition(w.gr, ctr,
                  PAdd(w.gr.verts[ctr].position, CenterShare(w.gr, src, trg)))
        w2 == NewMidVertex([w EXCEPT !.gr = g1])
        v == LastVertex(w2.gr)
        g3 == SetPosition(w2.gr, v, mid)
    IN [w2 EXCEPT !.gr = insert_vertex_in_edge(g3, v, e)]

SubdivideFaceSplit ==
    /\ pc = "foreach"
    /\ i <= Len(f_edges)
    /\ LET w == SplitEdge([gr |-> g, cnt |-> count], f_edges[i], center)
       IN /\ g' = w.gr
          /\ count' = w.cnt
    /\ i' = i + 1
    /\ UNCHANGED <<far, min_sampling, out_face, f, f_edges, center, pc, built>>

\* After the loop: the boundary is read again, assert(size == 8), the
\* edges are printed, subdivide_face returns to the loop of subdivide().
SubdivideFaceLeave ==
    /\ pc = "foreach"
    /\ i > Len(f_edges)
    /\ f_edges' = face_edges(g, f)
    /\ IF Len(face_edges(g, f)) = 8
       THEN pc' = "subdivide" /\ f' = f + 1
       ELSE pc' = "assert_failed" /\ f' = f
    /\ UNCHANGED <<count, g, far, min_sampling, out_face, i, center, built>>

\* setMinSampling(s), on the finished builder
setMinSampling(s) ==
    /\ pc = "done"
    /\ min_sampling' = s
    /\ UNCHANGED <<count, g, far, out_face, f, f_edges, i, center, pc, built>>

Next ==
    \/ \E fv \in FarValues, ms \in SamplingValues : Construct(fv, ms)
    \/ SubdivideLoop
    \/ SubdivideFaceEnter
    \/ SubdivideFaceSplit
    \/ SubdivideFaceLeave
    \/ \E s \in SamplingValues : setMinSampling(s)

Spec == Init /\ [][Next]_vars

-----------------------------------------------------------------------------
(* Properties *)

\* the bounded faces of a diagram: every face but the outer one
Bounded(gr, outer) == {fc \in 0 .. (num_faces(gr) - 1) : fc # outer}

\* the boundary of face fc is one closed cycle of half-edges of fc
Closed(gr, fc) ==
    LET b == face_edges(gr, fc)
    IN /\ Len(b) > 0
       /\ \A k \in 1 .. Len(b) : gr.edges[b[k]].face = fc
       /\ \A k, l \in 1 .. Len(b) : k # l => b[k] # b[l]
       /\ gr.edges[b[Len(b)]].next = FaceEdge(gr, fc)

Constructing == pc # "start"
QuadBuilt == pc = "subdivide" /\ f = 0
AllSplit == pc = "foreach" /\ i > Len(f_edges)

\* C1: twin symmetry.  In every state of a build, from the wired bounding
\* quad on and after each insert_vertex_in_edge, every half-edge e of the
\* mesh has a twin in the mesh and twin(twin(e)) = e.
C1_TwinSymmetry ==
    Constructing =>
        \A e \in Edges(g) :
            /\ g.edges[e].twin \in Edges(g)
            /\ g.edges[g.edges[e].twin].twin = e

\* two edges of the face are split, the other two are not yet
C1_Witness ==
    /\ pc = "foreach"
    /\ i = 3
    /\ Cardinality(Edges(g)) = 12
    /\ \E e \in Edges(g) : e > 8 /\ g.edges[g.edges[e].twin].twin = e

\* C2: boundary closure.  In the built mesh (the wired bounding quad, and
\* the mesh the constructor leaves) the boundary of every bounded face is
\* one closed cycle of half-edges of that face, reached from the
\* representative edge, and its length is a multiple of 4.
C2_BoundaryClosure ==
    (QuadBuilt \/ pc = "done") =>
        \A fc \in Bounded(g, out_face) :
            /\ Closed(g, fc)
            /\ Len(face_edges(g, fc)) % 4 = 0

C2_Witness ==
    /\ pc = "done"
    /\ Bounded(g, out_face) = {F_inner}
    /\ Closed(g, F_inner)
    /\ Len(face_edges(g, F_inner)) = 8

\* C3: after the subdivision pass on the bounding quad the mesh has exactly
\* 4 bounded faces, each with exactly 4 boundary half-edges, and 1 outer
\* face.
C3_FourQuads ==
    pc = "done" =>
        /\ Cardinality(Bounded(g, out_face)) = 4
        /\ \A fc \in Bounded(g, out_face) : Len(face_edges(g, fc)) = 4
        /\ num_faces(g) - Cardinality(Bounded(g, out_face)) = 1

\* the four corners of the bounding square, counter-clockwise
Corners(fr) ==
    << Point(fr, fr, 0), Point(0 - fr, fr, 0),
       Point(0 - fr, 0 - fr, 0), Point(fr, 0 - fr, 0) >>

\* C4: init with half-extent far > 0 creates exactly four vertices, at
\* (far,far,0), (-far,far,0), (-far,-far,0), (far,-far,0), and the inner
\* boundary cycle visits them in that order.
C4_Corners ==
    (QuadBuilt /\ far > 0) =>
        /\ Len(g.verts) = 4
        /\ \A k \in 1 .. 4 : g.verts[k].position = Corners(far)[k]
        /\ Len(face_edges(g, F_inner)) = 4
        /\ \A k \in 1 .. 4 :
               g.verts[g.edges[face_edges(g, F_inner)[k]].source].position
                   = Corners(far)[k]

\* C5: when the build for far > 0 and min_sampling > 0 has ended, every
\* half-edge of a bounded face is no longer than min_sampling.
C5_SampledToThreshold ==
    (pc = "done" /\ far > 0 /\ min_sampling > 0) =>
        \A e \in Edges(g) :
            g.edges[e].face # out_face =>
                DistSq(g.verts[g.edges[e].source].position,
                       g.verts[g.edges[e].target].position)
                    <= min_sampling * min_sampling

\* C6: a builder constructed with far <= 0 is rejected: the constructor
\* ends in an error and creates no vertex, half-edge or face.
C6_RejectsNonPositiveFar ==
    (Constructing /\ far <= 0) =>
        /\ pc = "rejected"
        /\ g.verts = <<>>
        /\ Edges(g) = {}
        /\ g.faces = <<>>

\* C7: the pass over the bounding quad (B = 1 bounded face) adds 1 center
\* vertex and one mid-point vertex per split edge, 9 vertices in the end,
\* and a half-edge and its twin share their end points, so that the split
\* of an edge and of its twin use one vertex.
C7_VertexCount ==
    /\ pc = "foreach" => Len(g.verts) = 4 + 1 + (i - 1)
    /\ pc = "done" =>
           LET B == Cardinality(Bounded(g, out_face))
           IN /\ Len(g.verts) = 4 + 4 * B + B
              /\ Len(g.verts) = 9
    /\ Constructing =>
           \A e \in Edges(g) :
               /\ g.edges[e].twin \in Edges(g)
               /\ g.edges[g.edges[e].twin].source = g.edges[e].target
               /\ g.edges[g.edges[e].twin].target = g.edges[e].source

C7_Witness ==
    /\ pc = "done"
    /\ Len(g.verts) = 9
    /\ Cardinality(Edges(g)) = 16

\* the bounding quad as init() wired it, before any split
OriginalQuad == InitQuad(0, far).gr

RECURSIVE SumOfSources(_, _, _)
SumOfSources(gr, es, n) ==
    IF n = 0 THEN <<0, 0, 0>>
    ELSE PAdd(SumOfSources(gr, es, n - 1),
              gr.verts[gr.edges[es[n]].source].position)

Times4(p) == <<4 * p[1], 4 * p[2], 4 * p[3]>>

\* C8: in subdivide_face the center accumulates a quarter of the corner
\* positions as they were before any split; once the four edges are
\* split it is the average of the four original corners, and the corners
\* themselves have not moved.
C8_CenterIsCornerAverage ==
    pc = "foreach" =>
        /\ \A k \in 1 .. 4 :
               g.verts[k].position = OriginalQuad.verts[k].position
        /\ Times4(g.verts[center].position)
               = SumOfSources(OriginalQuad, f_edges, i - 1)
        /\ AllSplit =>
               Times4(g.verts[center].position)
                   = SumOfSources(OriginalQuad, face_edges(OriginalQuad, F_inner), 4)

C8_Witness ==
    /\ AllSplit
    /\ far = 1
    /\ g.verts[center].position = <<1, 1, 0>>
    /\ Len(g.verts) = 9

\* the indices of the vertices of a diagram, in creation order
IndexSeq(gr) == [k \in 1 .. Len(gr.verts) |-> gr.verts[k].index]

\* C9: two builders constructed one after the other with the same far
\* give their vertices the same indices, and the indices within one mesh
\* are pairwise distinct.
C9_IndicesPerInstance ==
    pc = "done" =>
        /\ \A b \in 1 .. Len(built) :
               built[b].far = far => IndexSeq(built[b].g) = IndexSeq(g)
        /\ \A k, l \in 1 .. Len(g.verts) :
               k # l => g.verts[k].index # g.verts[l].index

\* C10: no assertion of subdivide_face fails: the outer face is never
\* passed to it, a face passed to it has 4 boundary half-edges, and after
\* the 4 insert_vertex_in_edge calls the boundary has 8.
C10_AssertionsHold ==
    /\ pc # "assert_failed"
    /\ pc = "subdivide_face" =>
           /\ f # out_face
           /\ Len(face_edges(g, f)) = 4
    /\ pc = "foreach" => f # out_face /\ Len(f_edges) = 4
    /\ AllSplit => Len(face_edges(g, f)) = 8

C10_Witness ==
    /\ AllSplit
    /\ f = F_inner
    /\ Len(face_edges(g, f)) = 8

=============================================================================
